---- MODULE Spec2Model ----
(***************************************************************************)
(* Model of the block store (block_store.go): a key-value engine holding   *)
(* block records by hash, a height index and the "LatestBlock" pointer,    *)
(* the atomically swapped current-block cache, the step-by-step WriteBlock *)
(* sequence run by several callers, and recovery at construction.          *)
(***************************************************************************)
EXTENDS Integers, Sequences, FiniteSets, TLC

\* ------------------------------------------------------------------ bounds
\* Largest header height a caller writes (heights are 0..MaxHeight).
MaxHeight == 1
\* Number of goroutines calling WriteBlock on the one BlockStore.
NumCallers == 2
\* Total number of WriteBlock calls started in one behaviour.
MaxWrites == 2

\* --------------------------------------------------------------- constants
\* Width of types.Hash in bytes.
HashLength == 32
\* Block height before the genesis block.
INIT_BLOCK_HEIGHT == 0
\* The key "LatestBlock" as bytes.
latestBlockKey == <<76, 97, 116, 101, 115, 116, 66, 108, 111, 99, 107>>

\* ------------------------------------------------------------- data types
\* A types.Hash whose last byte is n and whose other bytes are zero.
MkHash(n) == [i \in 1..HashLength |-> IF i = HashLength THEN n ELSE 0]

\* The all-zero hash (the zero value of types.Hash).
ZeroHash == MkHash(0)

\* Header heights are uint64 and WriteBlock takes any of them, 0 included.
Heights == 0..MaxHeight

\* The state root the mock block of the tests carries (its last byte is 0x4c).
stateHash == MkHash(76)

\* The content hash of a header: the hashing collaborator, one-to-one on the
\* headers of the model and never the zero hash.
HeaderHashOf(header) ==
    MkHash((header.Height + header.StateRoot[HashLength]) % 256)

\* A block as the chain hands it to the store: its HeaderHash is the hash of
\* its header.
MkBlock(height, root) ==
    LET header == [Height |-> height, StateRoot |-> root]
    IN  [Header |-> header, HeaderHash |-> HeaderHashOf(header)]

\* A block whose HeaderHash field was never filled in (the zero value).
UnhashedBlock ==
    [Header |-> [Height |-> 1, StateRoot |-> stateHash], HeaderHash |-> ZeroHash]

\* The blocks callers hand to WriteBlock.
Blocks == {MkBlock(h, stateHash) : h \in Heights} \cup {UnhashedBlock}

\* The nil *types.Block.
Nil == [nil |-> TRUE]

\* common.BlockHash: the block's header hash, its content identity.
BlockHash(block) == block.HeaderHash

\* util.HashToBytes: the hash's bytes as a slice.
HashToBytes(hash) == hash

\* util.BytesToHash: b right-aligned in a hash, cropped from the left when it
\* is longer than a hash and zero-padded on the left when it is shorter.
BytesToHash(b) ==
    LET n == Len(b)
    IN  [i \in 1..HashLength |->
            IF n >= HashLength THEN b[n - HashLength + i]
            ELSE IF i > HashLength - n THEN b[i - (HashLength - n)]
            ELSE 0]

\* ------------------------------------------------------------------ codec
\* n shifted right by k bytes.
RECURSIVE ShiftBytes(_, _)
ShiftBytes(n, k) == IF k = 0 THEN n ELSE ShiftBytes(n \div 256, k - 1)

\* encodeBlockHeight changed to shift one byte too far, dropping the height's
\* lowest byte.
encodeBlockHeightShifted(height) ==
    [i \in 1..8 |-> ShiftBytes(height, 9 - i) % 256]

\* encodeBlockHeight: the height as 8 big-endian bytes.
encodeBlockHeight(height) ==
    [i \in 1..8 |-> ShiftBytes(height, 8 - i) % 256]

\* The decimal digits of n, as ASCII bytes.
RECURSIVE Decimal(_)
Decimal(n) ==
    IF n < 10 THEN <<48 + n>> ELSE Append(Decimal(n \div 10), 48 + (n % 10))

\* The number a sequence of ASCII digits denotes.
RECURSIVE ParseDecimal(_)
ParseDecimal(d) ==
    IF Len(d) = 0 THEN 0
    ELSE 10 * ParseDecimal(SubSeq(d, 1, Len(d) - 1)) + (d[Len(d)] - 48)

\* Length of what follows the height in an encoded block:
\* ,[ StateRoot ],[ HeaderHash ]}
TailLen == 2 + HashLength + 3 + HashLength + 2

\* encodeBlock changed to leave the HeaderHash field out of the encoding, so
\* that it decodes as the zero value.
encodeBlockNoHeaderHash(block) ==
    <<123>> \o Decimal(block.Header.Height) \o <<44, 91>>
        \o block.Header.StateRoot \o <<93, 44, 91>>
        \o ZeroHash \o <<93, 125>>

\* encodeBlock: json.Marshal of the block, as
\* { Height ,[ StateRoot bytes ],[ HeaderHash bytes ]}
encodeBlock(block) ==
    <<123>> \o Decimal(block.Header.Height) \o <<44, 91>>
        \o block.Header.StateRoot \o <<93, 44, 91>>
        \o block.HeaderHash \o <<93, 125>>

\* decodeBlock: json.Unmarshal into a block; err when the bytes are not an
\* encoded block.
decodeBlock(blockByte) ==
    LET n == Len(blockByte)
        d == n - TailLen - 1
        digits == SubSeq(blockByte, 2, 1 + d)
        t == 1 + d
        wellFormed ==
            /\ d >= 1
            /\ blockByte[1] = 123
            /\ \A i \in 1..d : digits[i] \in 48..57
            /\ blockByte[t + 1] = 44 /\ blockByte[t + 2] = 91
            /\ blockByte[t + 3 + HashLength] = 93
            /\ blockByte[t + 4 + HashLength] = 44
            /\ blockByte[t + 5 + HashLength] = 91
            /\ blockByte[n - 1] = 93 /\ blockByte[n] = 125
    IN  IF wellFormed
        THEN [block |->
                [Header |->
                    [Height |-> ParseDecimal(digits),
                     StateRoot |-> SubSeq(blockByte, t + 3, t + 2 + HashLength)],
                 HeaderHash |->
                    SubSeq(blockByte, t + 6 + HashLength, t + 5 + 2 * HashLength)],
              err |-> FALSE]
        ELSE [block |-> Nil, err |-> TRUE]

\* ----------------------------------------------------------------- engine
\* The key-value engine's contents: a function from the keys present to
\* their values.
EmptyStore == [k \in {} |-> <<>>]

\* DBStore.Get: the value under key, or a not-found error.
Get(s, key) ==
    IF key \in DOMAIN s THEN [val |-> s[key], err |-> FALSE]
    ELSE [val |-> <<>>, err |-> TRUE]

\* DBStore.Put that succeeds: key holds value afterwards.
Put(s, key, value) ==
    [k \in DOMAIN s \cup {key} |-> IF k = key THEN value ELSE s[k]]

\* ------------------------------------------------------------- read path
\* GetBlockByHash: the block decoded from the record under the hash.
GetBlockByHash(s, hash) ==
    LET r == Get(s, HashToBytes(hash))
    IN  IF r.val = <<>> \/ r.err
        THEN [block |-> Nil, err |-> TRUE]
        ELSE LET dec == decodeBlock(r.val)
             IN  IF dec.err THEN [block |-> Nil, err |-> TRUE]
                 ELSE [block |-> dec.block, err |-> FALSE]

\* GetBlockByHeight changed to go on to the hash lookup without looking at the
\* error of the index lookup.
GetBlockByHeightUnchecked(s, height) ==
    GetBlockByHash(s, BytesToHash(Get(s, encodeBlockHeight(height)).val))

\* GetBlockByHeight: the height index entry, then GetBlockByHash.
GetBlockByHeight(s, height) ==
    LET r == Get(s, encodeBlockHeight(height))
    IN  IF r.err THEN [block |-> Nil, err |-> TRUE]
        ELSE GetBlockByHash(s, BytesToHash(r.val))

\* GetCurrentBlock: the cached block, nil when none was stored.
GetCurrentBlock(cur) == cur

\* GetCurrentBlockHeight: the cached block's height, or the sentinel.
GetCurrentBlockHeight(cur) ==
    IF GetCurrentBlock(cur) # Nil
    THEN GetCurrentBlock(cur).Header.Height
    ELSE INIT_BLOCK_HEIGHT

\* loadLatestBlock: the cache after recovery over store s, starting from
\* cache cur.
loadLatestBlock(s, cur) ==
    LET r == Get(s, latestBlockKey)
    IN  IF r.err THEN cur
        ELSE LET latest == GetBlockByHash(s, BytesToHash(r.val))
             IN  IF latest.err THEN cur ELSE latest.block

\* ------------------------------------------------------------------ state
VARIABLES
    config,         \* config.PluginName of the node
    store,          \* contents of the key-value engine
    currentBlock,   \* BlockStore.currentBlock (atomic.Value): Nil or a block
    facade,         \* "none": no BlockStore; "ok": constructed; "error"
    pc,             \* per caller: position inside WriteBlock
    blk,            \* per caller: the block passed to the running WriteBlock
    puts,           \* per caller: the engine Puts the running call issued
    alone,          \* per caller: no other call has overlapped the running one
    last,           \* the WriteBlock that returned last, if no call followed
    pre,            \* store and cache when the latest WriteBlock was called
    written,        \* blocks whose WriteBlock returned nil on this store
    heightOk,       \* per height: block of the last WriteBlock at that height
                    \* that ran alone and returned nil, Nil once another
                    \* WriteBlock at that height is called
    clean,          \* every call so far ran alone, to its end, no Put failed
    fresh,          \* no WriteBlock was called on the present BlockStore
    writes          \* number of WriteBlock calls started

vars == <<config, store, currentBlock, facade, pc, blk, puts, alone, last, pre,
          written, heightOk, clean, fresh, writes>>

Callers == 1..NumCallers

PLUGIN_LEVELDB == "leveldb"
PLUGIN_MEMDB == "memorydb"
Plugins == {PLUGIN_LEVELDB, PLUGIN_MEMDB, "unknown"}

NoBlock == [c \in Callers |-> Nil]
NoPuts == [c \in Callers |-> <<>>]
NoHeights == [h \in Heights |-> Nil]
NoCall == [block |-> Nil, result |-> "none", puts |-> <<>>, alone |-> FALSE]
NoPre == [store |-> EmptyStore, cur |-> Nil]
Idle == \A c \in Callers : pc[c] = "idle"

Init ==
    /\ config \in Plugins
    /\ store = EmptyStore
    /\ currentBlock = Nil
    /\ facade = "none"
    /\ pc = [c \in Callers |-> "idle"]
    /\ blk = NoBlock
    /\ puts = NoPuts
    /\ alone = [c \in Callers |-> FALSE]
    /\ last = NoCall
    /\ pre = NoPre
    /\ written = {}
    /\ heightOk = NoHeights
    /\ clean = TRUE
    /\ fresh = TRUE
    /\ writes = 0

\* ------------------------------------------------- construction, recovery
\* createDBStore: the engine a plugin name selects. The leveldb engine opens
\* the contents on disk, the memory engine starts empty.
createDBStore(plugin, onDisk) ==
    IF plugin = PLUGIN_LEVELDB THEN [store |-> onDisk, err |-> FALSE]
    ELSE IF plugin = PLUGIN_MEMDB THEN [store |-> EmptyStore, err |-> FALSE]
    ELSE [store |-> onDisk, err |-> TRUE]

\* NewBlockStore changed to fail when "LatestBlock" is there and the block it
\* names cannot be loaded.
NewBlockStoreStrict ==
    /\ facade # "ok"
    /\ LET db == createDBStore(config, store)
           bad == /\ ~Get(db.store, latestBlockKey).err
                  /\ loadLatestBlock(db.store, Nil) = Nil
       IN  IF db.err \/ bad
           THEN /\ facade' = "error"
                /\ UNCHANGED <<store, currentBlock>>
           ELSE /\ facade' = "ok"
                /\ store' = db.store
                /\ currentBlock' = loadLatestBlock(db.store, Nil)
    /\ UNCHANGED <<config, pc, blk, puts, alone, last, pre, written, heightOk,
                   clean, fresh, writes>>

\* NewBlockStore: create the engine, then load the latest block.
NewBlockStore ==
    /\ facade # "ok"
    /\ LET db == createDBStore(config, store)
       IN  IF db.err
           THEN /\ facade' = "error"
                /\ UNCHANGED <<store, currentBlock>>
           ELSE /\ facade' = "ok"
                /\ store' = db.store
                /\ currentBlock' = loadLatestBlock(db.store, Nil)
    /\ UNCHANGED <<config, pc, blk, puts, alone, last, pre, written, heightOk,
                   clean, fresh, writes>>

\* The process ends: the BlockStore, its cache and the calls in flight are
\* gone; the contents of the leveldb engine stay, those of the memory engine
\* are gone too.
Stop ==
    /\ facade = "ok"
    /\ facade' = "none"
    /\ currentBlock' = Nil
    /\ pc' = [c \in Callers |-> "idle"]
    /\ blk' = NoBlock
    /\ puts' = NoPuts
    /\ alone' = [c \in Callers |-> FALSE]
    /\ fresh' = TRUE
    /\ IF config = PLUGIN_MEMDB
       THEN /\ store' = EmptyStore
            /\ last' = NoCall
            /\ pre' = NoPre
            /\ written' = {}
            /\ heightOk' = NoHeights
            /\ clean' = TRUE
       ELSE /\ clean' = (clean /\ Idle)
            /\ UNCHANGED <<store, last, pre, written, heightOk>>
    /\ UNCHANGED <<config, writes>>

\* ------------------------------------------------------------- write path
\* A step of caller c's WriteBlock after which the call goes on at `to`,
\* having issued the Put `put` (<<>>: none).
Continue(c, to, put) ==
    /\ pc' = [pc EXCEPT ![c] = to]
    /\ puts' = [puts EXCEPT ![c] = IF put = <<>> THEN @ ELSE Append(@, put)]
    /\ UNCHANGED <<config, facade, blk, alone, last, pre, written, heightOk,
                   fresh, writes>>

\* WriteBlock returns result to caller c, having issued the Put `put`.
Return(c, result, put) ==
    /\ pc' = [pc EXCEPT ![c] = "idle"]
    /\ blk' = [blk EXCEPT ![c] = Nil]
    /\ puts' = [puts EXCEPT ![c] = <<>>]
    /\ alone' = [alone EXCEPT ![c] = FALSE]
    /\ last' = [block |-> blk[c], result |-> result,
                puts |-> IF put = <<>> THEN puts[c] ELSE Append(puts[c], put),
                alone |-> alone[c]]
    /\ written' = IF result = "ok" THEN written \cup {blk[c]} ELSE written
    /\ heightOk' =
         IF result = "ok"
         THEN [heightOk EXCEPT ![blk[c].Header.Height] =
                 IF alone[c] THEN blk[c] ELSE Nil]
         ELSE heightOk
    /\ UNCHANGED <<config, facade, pre, fresh, writes>>

\* A call of WriteBlock(block) by caller c: what the call records. Callers
\* are alike, so the call is made by the first of those that are idle.
Call(c, block) ==
    /\ facade = "ok"
    /\ pc[c] = "idle"
    /\ \A d \in Callers : d < c => pc[d] # "idle"
    /\ writes < MaxWrites
    /\ writes' = writes + 1
    /\ pre' = [store |-> store, cur |-> currentBlock]
    /\ heightOk' = [heightOk EXCEPT ![block.Header.Height] = Nil]
    /\ clean' = (clean /\ Idle)
    /\ fresh' = FALSE
    /\ UNCHANGED <<config, facade, written, store, currentBlock>>

\* WriteBlock, lines 94-100, encodeBlock fails: the error is returned.
WriteBlockEncodeFail(c, block) ==
    /\ Call(c, block)
    /\ last' = [block |-> block, result |-> "err", puts |-> <<>>,
                alone |-> Idle]
    /\ alone' = [d \in Callers |-> FALSE]
    /\ UNCHANGED <<pc, blk, puts>>

\* WriteBlock, lines 94-102, encodeBlock succeeds.
WriteBlockBegin(c, block) ==
    /\ Call(c, block)
    /\ pc' = [pc EXCEPT ![c] = "putHash"]
    /\ blk' = [blk EXCEPT ![c] = block]
    /\ puts' = [puts EXCEPT ![c] = <<>>]
    /\ alone' = [d \in Callers |-> d = c /\ Idle]
    /\ last' = NoCall

\* PutHashOk changed to update the current block as soon as the block record
\* is written.
PutHashOkRecords(c) ==
    /\ pc[c] = "putHash"
    /\ store' = Put(store, HashToBytes(BlockHash(blk[c])), encodeBlock(blk[c]))
    /\ currentBlock' = blk[c]
    /\ Continue(c, "putHeight", <<"hash", TRUE>>)
    /\ UNCHANGED clean

\* PutHashOk changed to blank "LatestBlock" while the write is under way, to
\* be set again by the last Put.
PutHashOkBlanksLatest(c) ==
    /\ pc[c] = "putHash"
    /\ store' = Put(Put(store, HashToBytes(BlockHash(blk[c])),
                        encodeBlock(blk[c])),
                    latestBlockKey, <<>>)
    /\ Continue(c, "putHeight", <<"hash", TRUE>>)
    /\ UNCHANGED <<currentBlock, clean>>

\* Line 103, the Put of the block record succeeds.
PutHashOk(c) ==
    /\ pc[c] = "putHash"
    /\ store' = Put(store, HashToBytes(BlockHash(blk[c])), encodeBlock(blk[c]))
    /\ Continue(c, "putHeight", <<"hash", TRUE>>)
    /\ UNCHANGED <<currentBlock, clean>>

\* PutHashFail changed to log the failed Put and go on to the height index.
PutHashFailGoesOn(c) ==
    /\ pc[c] = "putHash"
    /\ Continue(c, "putHeight", <<"hash", FALSE>>)
    /\ clean' = FALSE
    /\ UNCHANGED <<store, currentBlock>>

\* PutHashFail changed to update the current block before the outcome of the
\* Put is looked at.
PutHashFailRecords(c) ==
    /\ pc[c] = "putHash"
    /\ Return(c, "err", <<"hash", FALSE>>)
    /\ clean' = FALSE
    /\ currentBlock' = blk[c]
    /\ UNCHANGED store

\* Lines 103-107, the Put of the block record fails.
PutHashFail(c) ==
    /\ pc[c] = "putHash"
    /\ Return(c, "err", <<"hash", FALSE>>)
    /\ clean' = FALSE
    /\ UNCHANGED <<store, currentBlock>>

\* PutHeightOk changed to pass Put its arguments the wrong way round: the
\* height key is written under the block's hash.
PutHeightOkSwapped(c) ==
    /\ pc[c] = "putHeight"
    /\ store' = Put(store, HashToBytes(BlockHash(blk[c])),
                    encodeBlockHeight(blk[c].Header.Height))
    /\ Continue(c, "record", <<"height", TRUE>>)
    /\ UNCHANGED <<currentBlock, clean>>

\* PutHeightOk changed to index the block under the height after its own.
PutHeightOkNextHeight(c) ==
    /\ pc[c] = "putHeight"
    /\ store' = Put(store, encodeBlockHeight(blk[c].Header.Height + 1),
                    HashToBytes(BlockHash(blk[c])))
    /\ Continue(c, "record", <<"height", TRUE>>)
    /\ UNCHANGED <<currentBlock, clean>>

\* Line 109, the Put of the height index entry succeeds.
PutHeightOk(c) ==
    /\ pc[c] = "putHeight"
    /\ store' = Put(store, encodeBlockHeight(blk[c].Header.Height),
                    HashToBytes(BlockHash(blk[c])))
    /\ Continue(c, "record", <<"height", TRUE>>)
    /\ UNCHANGED <<currentBlock, clean>>

\* PutHeightFail changed to update the current block before the outcome of
\* the Put is looked at.
PutHeightFailRecords(c) ==
    /\ pc[c] = "putHeight"
    /\ Return(c, "err", <<"height", FALSE>>)
    /\ clean' = FALSE
    /\ currentBlock' = blk[c]
    /\ UNCHANGED store

\* PutHeightFail changed to log the failed Put and go on to the cache update
\* and the Put of "LatestBlock".
PutHeightFailGoesOn(c) ==
    /\ pc[c] = "putHeight"
    /\ Continue(c, "record", <<"height", FALSE>>)
    /\ clean' = FALSE
    /\ UNCHANGED <<store, currentBlock>>

\* Lines 109-113, the Put of the height index entry fails.
PutHeightFail(c) ==
    /\ pc[c] = "putHeight"
    /\ Return(c, "err", <<"height", FALSE>>)
    /\ clean' = FALSE
    /\ UNCHANGED <<store, currentBlock>>

\* recordCurrentBlock changed to keep the cached block unless the new block is
\* higher.
recordCurrentBlockIfHigher(cur, block) ==
    IF cur # Nil /\ block.Header.Height <= cur.Header.Height THEN cur ELSE block

\* recordCurrentBlock changed to copy the block into the cached struct field
\* by field: the cache as a reader finds it once the header is copied and the
\* header hash not yet.
recordCurrentBlockByField(cur, block) ==
    IF cur = Nil THEN block ELSE [cur EXCEPT !.Header = block.Header]

\* recordCurrentBlock: the cache cur after block is stored in it.
recordCurrentBlock(cur, block) == block

\* Line 115.
RecordCurrent(c) ==
    /\ pc[c] = "record"
    /\ currentBlock' = recordCurrentBlock(currentBlock, blk[c])
    /\ Continue(c, "putLatest", <<>>)
    /\ UNCHANGED <<store, clean>>

\* PutLatestOk changed to return nil without having written "LatestBlock".
PutLatestOkNotWritten(c) ==
    /\ pc[c] = "putLatest"
    /\ Return(c, "ok", <<"latest", TRUE>>)
    /\ UNCHANGED <<store, currentBlock, clean>>

\* PutLatestOk changed to keep history: the hash "LatestBlock" held before
\* is saved under the key "Prev".
PutLatestOkKeepsPrevious(c) ==
    /\ pc[c] = "putLatest"
    /\ store' = Put(Put(store, <<80, 114, 101, 118>>,
                        Get(store, latestBlockKey).val),
                    latestBlockKey, HashToBytes(BlockHash(blk[c])))
    /\ Return(c, "ok", <<"latest", TRUE>>)
    /\ UNCHANGED <<currentBlock, clean>>

\* Lines 117-121, the Put of "LatestBlock" succeeds; nil is returned.
PutLatestOk(c) ==
    /\ pc[c] = "putLatest"
    /\ store' = Put(store, latestBlockKey, HashToBytes(BlockHash(blk[c])))
    /\ Return(c, "ok", <<"latest", TRUE>>)
    /\ UNCHANGED <<currentBlock, clean>>

\* PutLatestFail changed to report the failed Put as an error.
PutLatestFailReturnsError(c) ==
    /\ pc[c] = "putLatest"
    /\ Return(c, "err", <<"latest", FALSE>>)
    /\ clean' = FALSE
    /\ UNCHANGED <<store, currentBlock>>

\* PutLatestFail changed to try the Put of "LatestBlock" again after it
\* failed.
PutLatestFailRetries(c) ==
    /\ pc[c] = "putLatest"
    /\ Continue(c, "putLatest", <<"latest", FALSE>>)
    /\ clean' = FALSE
    /\ UNCHANGED <<store, currentBlock>>

\* Lines 117-121, the Put of "LatestBlock" fails; nil is returned all the same.
PutLatestFail(c) ==
    /\ pc[c] = "putLatest"
    /\ Return(c, "ok", <<"latest", FALSE>>)
    /\ clean' = FALSE
    /\ UNCHANGED <<store, currentBlock>>

\* One step of a running WriteBlock.
Step(c) ==
    \/ PutHashOk(c) \/ PutHashFail(c)
    \/ PutHeightOk(c) \/ PutHeightFail(c)
    \/ RecordCurrent(c)
    \/ PutLatestOk(c) \/ PutLatestFail(c)

\* Any number of callers inside WriteBlock at once.
Next ==
    \/ NewBlockStore
    \/ Stop
    \/ \E c \in Callers, b \in Blocks : WriteBlockEncodeFail(c, b)
    \/ \E c \in Callers, b \in Blocks : WriteBlockBegin(c, b)
    \/ \E c \in Callers : Step(c)

Spec == Init /\ [][Next]_vars

\* ------------------------------------------------- writes past the store
\* What is written to the engine by hand while no BlockStore is open: a
\* "LatestBlock" naming the first block's hash, a "LatestBlock" holding one
\* byte, and a cut-off record under the first block's hash.
ManualPuts ==
    LET first == HashToBytes(BlockHash(MkBlock(1, stateHash)))
    IN  {<<latestBlockKey, first>>, <<latestBlockKey, <<7>>>>, <<first, <<123>>>>}

\* DBStore.Put called on the leveldb contents directly, as a test of a corrupt
\* head pointer does before it constructs the BlockStore.
ManualPut(key, value) ==
    /\ config = PLUGIN_LEVELDB
    /\ facade = "none"
    /\ store' = Put(store, key, value)
    /\ clean' = FALSE
    /\ UNCHANGED <<config, currentBlock, facade, pc, blk, puts, alone, last,
                   pre, written, heightOk, fresh, writes>>

\* A WriteBlock called while no other call is running.
SeqWriteBlockEncodeFail(c, block) == Idle /\ WriteBlockEncodeFail(c, block)
SeqWriteBlockBegin(c, block) == Idle /\ WriteBlockBegin(c, block)

\* Writes by hand between the runs of a node that calls WriteBlock one call
\* at a time.
NextManual ==
    \/ NewBlockStore
    \/ Stop
    \/ \E c \in Callers, b \in Blocks : SeqWriteBlockEncodeFail(c, b)
    \/ \E c \in Callers, b \in Blocks : SeqWriteBlockBegin(c, b)
    \/ \E c \in Callers : Step(c)
    \/ \E kv \in ManualPuts : ManualPut(kv[1], kv[2])

SpecManual == Init /\ [][NextManual]_vars

\* ------------------------------------------------ an engine that never fails
\* One step of a running WriteBlock whose Puts all succeed.
StepReliable(c) ==
    \/ PutHashOk(c)
    \/ PutHeightOk(c)
    \/ RecordCurrent(c)
    \/ PutLatestOk(c)

\* Any number of callers inside WriteBlock at once, on an engine whose Puts
\* all succeed.
NextReliable ==
    \/ NewBlockStore
    \/ Stop
    \/ \E c \in Callers, b \in Blocks : WriteBlockBegin(c, b)
    \/ \E c \in Callers : StepReliable(c)

SpecReliable == Init /\ [][NextReliable]_vars

\* ----------------------------------------------------------------- claims
\* The call that returned last ran with no other call overlapping it, on the
\* BlockStore that still exists, and no call followed it.
LastRanAlone == facade = "ok" /\ ~fresh /\ last.alone

\* C1 (head tracking): when WriteBlock(B) has returned nil, no other
\* WriteBlock overlapped it and none followed, GetCurrentBlock is B and
\* GetCurrentBlockHeight is B's header height, whatever the height of the
\* head before.
C1_HeadTracking ==
    (LastRanAlone /\ last.result = "ok") =>
        /\ GetCurrentBlock(currentBlock) = last.block
        /\ GetCurrentBlockHeight(currentBlock) = last.block.Header.Height

\* C1's case: a WriteBlock of a block no higher than the head before it
\* returned nil.
C1_Witness ==
    /\ LastRanAlone /\ last.result = "ok"
    /\ pre.cur # Nil /\ pre.cur # last.block
    /\ last.block.Header.Height <= pre.cur.Header.Height

\* C2 (content addressing): for every block B whose WriteBlock returned nil,
\* GetBlockByHash(hash(B)) returns, without error, a block whose header hash
\* is B's, also after later WriteBlock calls of other blocks.
C2_ContentAddressing ==
    \A b \in written :
        LET r == GetBlockByHash(store, BlockHash(b))
        IN  ~r.err /\ r.block.HeaderHash = b.HeaderHash

\* C2's case: after B's WriteBlock returned nil, the WriteBlock of another
\* block returned nil.
C2_Witness ==
    \E b \in written : last.result = "ok" /\ last.block # b

\* C3 (height indexing): when WriteBlock(B) with height h has returned nil
\* and no WriteBlock of a block of height h was called since, then
\* GetBlockByHeight(h) returns, without error, what GetBlockByHash(hash(B))
\* returns.
C3_HeightIndexing ==
    \A h \in Heights :
        heightOk[h] # Nil =>
            LET byHeight == GetBlockByHeight(store, h)
                byHash == GetBlockByHash(store, BlockHash(heightOk[h]))
            IN  ~byHeight.err /\ byHeight = byHash

\* C3's case: after B's WriteBlock returned nil, a WriteBlock of a block of
\* another height returned nil.
C3_Witness ==
    \E h \in Heights :
        /\ heightOk[h] # Nil
        /\ last.result = "ok"
        /\ last.block.Header.Height # h
\* The head a restart recovers from the engine contents s: loadLatestBlock
\* run on an empty cache.
Recovered(s) == loadLatestBlock(s, Nil)

\* C4 (restart recovery): after WriteBlock calls that ran one after the
\* other with every engine Put succeeding, the last of them WriteBlock(B),
\* recovery over the store with the cache discarded yields B, running it
\* again yields B again, and the BlockStore constructed after the process
\* ended has B as its current block.
C4_RestartRecovery ==
    (clean /\ last.result = "ok") =>
        /\ Recovered(store) = last.block
        /\ loadLatestBlock(store, Recovered(store)) = last.block
        /\ (facade = "ok" /\ fresh) => GetCurrentBlock(currentBlock) = last.block

\* C4's case: a BlockStore was constructed over the contents a second
\* WriteBlock left.
C4_Witness ==
    /\ clean /\ last.result = "ok" /\ facade = "ok" /\ fresh
    /\ written # {last.block}

\* The call that returned last ran alone and its Put of "LatestBlock", the
\* third Put, failed.
LatestPutFailed ==
    /\ last.alone
    /\ Len(last.puts) = 3
    /\ last.puts[3] = <<"latest", FALSE>>

\* C5 (best-effort head pointer): when the hash Put and the height Put of
\* WriteBlock(B) succeeded and the "LatestBlock" Put failed, WriteBlock
\* returned nil, the cache holds B, "LatestBlock" holds what it held before
\* the call, and a restart recovers the head it would have recovered before
\* the call (none if there was none), which is B only if it was B before.
C5_BestEffortHead ==
    LatestPutFailed =>
        /\ last.result = "ok"
        /\ Get(store, latestBlockKey) = Get(pre.store, latestBlockKey)
        /\ Recovered(store) = Recovered(pre.store)
        /\ Recovered(pre.store) # last.block => Recovered(store) # last.block
        /\ (facade = "ok" /\ ~fresh) => GetCurrentBlock(currentBlock) = last.block
        /\ (facade = "ok" /\ fresh) =>
               GetCurrentBlock(currentBlock) = Recovered(pre.store)

\* C5's case: the "LatestBlock" Put of a second block failed, the process
\* ended and a BlockStore was constructed, which recovered the first block.
C5_Witness ==
    /\ LatestPutFailed
    /\ facade = "ok" /\ fresh
    /\ currentBlock # Nil /\ currentBlock # last.block

\* The call that returned last ran alone, on the BlockStore that exists, its
\* hash Put succeeded and its height Put failed.
HeightPutFailed ==
    /\ LastRanAlone
    /\ last.puts = <<(<<"hash", TRUE>>), (<<"height", FALSE>>)>>

\* Heights whose index entries are looked at: those written and their
\* neighbours.
ProbeHeights == 0..(MaxHeight + 1)

\* C6 (height-index write failure): when the hash Put of WriteBlock(B)
\* succeeded and the height Put failed, WriteBlock returned an error, the
\* record hash(B) -> encoded B is in the store, and the cache, every height
\* index entry and "LatestBlock" are as they were before the call.
C6_HeightPutFailure ==
    HeightPutFailed =>
        /\ last.result = "err"
        /\ Get(store, HashToBytes(BlockHash(last.block)))
             = [val |-> encodeBlock(last.block), err |-> FALSE]
        /\ currentBlock = pre.cur
        /\ \A h \in ProbeHeights :
             Get(store, encodeBlockHeight(h)) = Get(pre.store, encodeBlockHeight(h))
        /\ Get(store, latestBlockKey) = Get(pre.store, latestBlockKey)
        /\ store = Put(pre.store, HashToBytes(BlockHash(last.block)),
                       encodeBlock(last.block))

\* C6's case: the height Put failed for a block that was not in the store,
\* with another block as the head.
C6_Witness ==
    /\ HeightPutFailed
    /\ pre.cur # Nil
    /\ HashToBytes(BlockHash(last.block)) \notin DOMAIN pre.store

\* The call that returned last ran alone, on the BlockStore that exists, and
\* failed at encoding (it issued no Put) or at the hash Put.
EarlyFailure ==
    /\ LastRanAlone
    /\ last.result # "none"
    /\ \/ last.puts = <<>>
       \/ last.puts[1] = <<"hash", FALSE>>

\* C7 (early write failure): when WriteBlock(B) failed at encoding or at the
\* hash Put, it returned an error, issued no Put after the failure, and the
\* store and the cache are what they were before the call.
C7_EarlyFailure ==
    EarlyFailure =>
        /\ last.result = "err"
        /\ Len(last.puts) <= 1
        /\ store = pre.store
        /\ currentBlock = pre.cur

\* C7's case: the hash Put failed with a head already there.
C7_Witness ==
    /\ EarlyFailure
    /\ last.puts = <<(<<"hash", FALSE>>)>>
    /\ pre.cur # Nil

\* C7's other case: encoding failed.
C7_WitnessEncoding ==
    /\ EarlyFailure
    /\ last.puts = <<>>
    /\ pre.cur # Nil
\* "LatestBlock" holds a hash under which the store s has no record, or a
\* record that does not decode.
Dangling(s) ==
    /\ latestBlockKey \in DOMAIN s
    /\ LET key == HashToBytes(BytesToHash(s[latestBlockKey]))
       IN  key \notin DOMAIN s \/ decodeBlock(s[key]).err

\* A step in which NewBlockStore was run.
Construction == facade = "none" /\ facade' # "none"

\* C8 (corrupt head pointer): when a BlockStore is constructed over leveldb
\* contents whose "LatestBlock" holds a hash with no record, or with a record
\* that does not decode, construction succeeds, GetCurrentBlock is nil,
\* GetCurrentBlockHeight is 0 and the store is what it was.
C8_CorruptHeadPointer ==
    [][(Construction /\ config = PLUGIN_LEVELDB /\ Dangling(store)) =>
          /\ facade' = "ok"
          /\ GetCurrentBlock(currentBlock)' = Nil
          /\ GetCurrentBlockHeight(currentBlock)' = 0
          /\ store' = store]_vars

\* C8's case: a BlockStore constructed over a "LatestBlock" that names a hash
\* with no record.
C8_Witness ==
    /\ facade = "ok" /\ fresh
    /\ Dangling(store)
    /\ HashToBytes(BytesToHash(store[latestBlockKey])) \notin DOMAIN store

\* C8's other case: the record "LatestBlock" names does not decode.
C8_WitnessUndecodable ==
    /\ facade = "ok" /\ fresh
    /\ Dangling(store)
    /\ HashToBytes(BytesToHash(store[latestBlockKey])) \in DOMAIN store

\* The store s holds no height index entry.
NoHeightEntry(s) == \A h \in ProbeHeights : encodeBlockHeight(h) \notin DOMAIN s

\* C9 (empty-store recovery): constructing a BlockStore with a supported
\* plugin gives no error, and while no WriteBlock has got past its height Put
\* (the store holds no height index entry) GetCurrentBlock is nil and
\* GetCurrentBlockHeight is 0.
C9_EmptyStoreRecovery ==
    /\ config \in {PLUGIN_LEVELDB, PLUGIN_MEMDB} => facade # "error"
    /\ (facade = "ok" /\ NoHeightEntry(store)) =>
          /\ GetCurrentBlock(currentBlock) = Nil
          /\ GetCurrentBlockHeight(currentBlock) = 0

\* C9's case: a WriteBlock on a BlockStore constructed over an empty store
\* has written its block record and not yet its height index entry.
C9_Witness ==
    /\ facade = "ok"
    /\ NoHeightEntry(store)
    /\ \E c \in Callers : pc[c] = "putHeight"

\* The hashes looked up: those of the blocks, the zero hash and one other.
ProbeHashes == {BlockHash(b) : b \in Blocks} \cup {ZeroHash, MkHash(7)}

\* C10 (not found): GetBlockByHash on a hash with no record and
\* GetBlockByHeight on a height with no index entry return an error and a
\* nil block, whatever else the store holds.
C10_NotFound ==
    /\ \A hash \in ProbeHashes :
          HashToBytes(hash) \notin DOMAIN store =>
              GetBlockByHash(store, hash) = [block |-> Nil, err |-> TRUE]
    /\ \A h \in ProbeHeights :
          encodeBlockHeight(h) \notin DOMAIN store =>
              GetBlockByHeight(store, h) = [block |-> Nil, err |-> TRUE]

\* C10's case: a record is stored under the zero hash while a height has no
\* index entry and a block hash has no record.
C10_Witness ==
    /\ facade = "ok"
    /\ HashToBytes(ZeroHash) \in DOMAIN store
    /\ \E h \in Heights : encodeBlockHeight(h) \notin DOMAIN store
    /\ \E b \in Blocks : HashToBytes(BlockHash(b)) \notin DOMAIN store

\* C11 (height sentinel): in every state of a constructed BlockStore,
\* GetCurrentBlockHeight is the cached block's header height when there is a
\* current block and INIT_BLOCK_HEIGHT otherwise, and it is 0 exactly when
\* GetCurrentBlock is nil.
C11_HeightSentinel ==
    facade = "ok" =>
        /\ GetCurrentBlockHeight(currentBlock) =
              IF GetCurrentBlock(currentBlock) # Nil
              THEN GetCurrentBlock(currentBlock).Header.Height
              ELSE INIT_BLOCK_HEIGHT
        /\ (GetCurrentBlockHeight(currentBlock) = 0) <=>
              (GetCurrentBlock(currentBlock) = Nil)

\* The keys of the block records in s: the keys as wide as a hash.
HashKeys(s) == {k \in DOMAIN s : Len(k) = HashLength}

\* Every record under a hash key decodes to a block whose hash is that key.
ContentAddressed(s) ==
    \A k \in HashKeys(s) :
        /\ ~decodeBlock(s[k]).err
        /\ HashToBytes(BlockHash(decodeBlock(s[k]).block)) = k

\* No step of the BlockStore removes a block record or changes what it
\* decodes to. (The end of a process on the memory engine is no operation of
\* the BlockStore; it takes the whole engine with it.)
RecordsKept ==
    (config = PLUGIN_LEVELDB \/ facade' = "ok") =>
        \A k \in HashKeys(store) :
            /\ k \in DOMAIN store'
            /\ decodeBlock(store'[k]) = decodeBlock(store[k])

\* C12 (block immutability): through WriteBlock calls with or without Put
\* failures, interleaved, and through restarts, a block record that is
\* present under a hash key stays present (nothing is deleted) and keeps the
\* value it decodes to, and the value under a hash key is always the block
\* whose hash is that key.
C12_BlockImmutability == [](ContentAddressed(store)) /\ [][RecordsKept]_vars

\* A block was written, and after it a WriteBlock of another block returned
\* nil: the first block's record is still there.
C12_Witness ==
    /\ facade = "ok"
    /\ last.result = "ok"
    /\ \E b \in written :
        /\ b # last.block
        /\ HashToBytes(BlockHash(b)) \in HashKeys(store)
        /\ GetBlockByHash(store, BlockHash(b)).block = b

\* C13 (head-pointer invariant): on a store that started empty and is
\* written by WriteBlock only, in every state (between the steps of a call,
\* after failed Puts, with calls interleaved) a present "LatestBlock" holds
\* a hash whose block record is present and decodes, and the height of that
\* block has a height index entry.
C13_HeadPointer ==
    LET head == Get(store, latestBlockKey)
        latest == GetBlockByHash(store, BytesToHash(head.val))
    IN  ~head.err =>
            /\ ~latest.err
            /\ ~Get(store, encodeBlockHeight(latest.block.Header.Height)).err

\* C13's case: "LatestBlock" is present while a WriteBlock of another block
\* is between its Puts, after a Put has failed.
C13_Witness ==
    /\ ~Get(store, latestBlockKey).err
    /\ ~clean
    /\ \E c \in Callers :
        /\ pc[c] = "putHeight"
        /\ HashToBytes(BlockHash(blk[c])) # Get(store, latestBlockKey).val

\* The keys of the height index entries in s: the keys as wide as a height.
HeightKeys(s) == {k \in DOMAIN s : Len(k) = 8}

\* C14 (height-index invariant): on a store that started empty and is
\* written by WriteBlock only, in every state every height index entry is
\* the entry of a height h, and the hash it holds has a block record whose
\* header height is h; blocks may come at the same height and in any order
\* of heights.
C14_HeightIndex ==
    /\ HeightKeys(store) \subseteq {encodeBlockHeight(h) : h \in Heights}
    /\ \A h \in ProbeHeights :
        LET entry == Get(store, encodeBlockHeight(h))
            found == GetBlockByHash(store, BytesToHash(entry.val))
        IN  ~entry.err => (~found.err /\ found.block.Header.Height = h)

\* C14's case: two blocks of one height were written, the index entry of
\* that height now holding the second one's hash.
C14_Witness ==
    /\ last.result = "ok"
    /\ \E b \in written :
        /\ b # last.block
        /\ b.Header.Height = last.block.Header.Height
        /\ Get(store, encodeBlockHeight(b.Header.Height)).val =
              HashToBytes(BlockHash(last.block))

\* C15 (cache and durable head agree under concurrency): when the WriteBlock
\* calls on a BlockStore, overlapping or not, have all returned and every
\* Put succeeded, GetCurrentBlock is the block whose hash is stored under
\* "LatestBlock", the head a restart would recover.
C15_CacheAgreesWithHead ==
    (facade = "ok" /\ ~fresh /\ Idle) =>
        LET head == Get(store, latestBlockKey)
        IN  /\ ~head.err
            /\ GetBlockByHash(store, BytesToHash(head.val)).block =
                  GetCurrentBlock(currentBlock)
            /\ Recovered(store) = GetCurrentBlock(currentBlock)

\* What a reader gets at any moment is nil or one of the blocks handed to
\* WriteBlock, whole, and the height read is that block's.
WholeBlockCached ==
    /\ GetCurrentBlock(currentBlock) \in Blocks \cup {Nil}
    /\ GetCurrentBlock(currentBlock) # Nil =>
          GetCurrentBlockHeight(currentBlock) =
              GetCurrentBlock(currentBlock).Header.Height

\* The cache takes a new value in one step only, and the value is the block
\* recovery found at construction, or the block of a running WriteBlock
\* whose Put of the block record and Put of the height entry have succeeded;
\* it is emptied only when the process ends.
CacheStoredWhole ==
    currentBlock' # currentBlock =>
        \/ facade = "ok" /\ facade' = "none" /\ currentBlock' = Nil
        \/ facade # "ok" /\ facade' = "ok" /\ currentBlock' = Recovered(store')
        \/ \E c \in Callers :
            /\ pc[c] = "record"
            /\ puts[c] = <<(<<"hash", TRUE>>), (<<"height", TRUE>>)>>
            /\ currentBlock' = blk[c]

\* C16 (atomic head cache): with callers interleaved in WriteBlock and
\* readers at any moment, a read of the cache gives nil or exactly one whole
\* block, recovered at construction or passed to a WriteBlock that is past
\* its Put of the height entry, never a mix of two blocks' fields; the
\* height read is the height of such a block.
C16_AtomicHeadCache == []WholeBlockCached /\ [][CacheStoredWhole]_vars

\* C16's case: one caller has stored its block in the cache and another
\* caller, with another block, is about to store its own.
C16_Witness ==
    \E c, d \in Callers :
        /\ pc[c] = "record"
        /\ pc[d] = "putLatest"
        /\ blk[c] # blk[d]
        /\ GetCurrentBlock(currentBlock) = blk[d]

\* The keys WriteBlock puts, in the order of its lines 103, 109, 117.
PutSequence == <<"hash", "height", "latest">>

\* The Puts of one call: at most three, the i-th on the i-th key of the
\* sequence (so each key at most once), none after a Put that failed.
InOrder(issued) ==
    /\ Len(issued) <= Len(PutSequence)
    /\ \A i \in 1..Len(issued) :
        /\ issued[i][1] = PutSequence[i]
        /\ i < Len(issued) => issued[i][2]

\* Where a running call stands against the Puts it has issued: the height
\* Put comes after the hash Put succeeded, the cache update and the Put of
\* "LatestBlock" after the height Put succeeded, and a call whose Put failed
\* is not running any more.
AfterSuccessOnly ==
    \A c \in Callers :
        /\ InOrder(puts[c])
        /\ \A i \in 1..Len(puts[c]) : puts[c][i][2]
        /\ pc[c] \in {"idle", "putHash"} => puts[c] = <<>>
        /\ pc[c] = "putHeight" => puts[c] = <<(<<"hash", TRUE>>)>>
        /\ pc[c] \in {"record", "putLatest"} =>
              puts[c] = <<(<<"hash", TRUE>>), (<<"height", TRUE>>)>>

\* Every change of the engine's contents by a BlockStore is one Put of one
\* running call, and the cache is stored by a call past its height Put.
OnePutAStep ==
    (facade = "ok" /\ facade' = "ok") =>
        /\ store' # store =>
              \E c \in Callers :
                  LET issued == IF pc'[c] = "idle" THEN last'.puts ELSE puts'[c]
                  IN  /\ pc[c] # "idle"
                      /\ Len(issued) = Len(puts[c]) + 1
                      /\ issued[Len(issued)][2]
        /\ currentBlock' # currentBlock =>
              \E c \in Callers :
                  /\ pc[c] = "record" /\ pc'[c] = "putLatest"
                  /\ puts[c] = <<(<<"hash", TRUE>>), (<<"height", TRUE>>)>>

\* C17 (no retries, fixed write order): a WriteBlock issues at most three
\* Puts, on the block record, the height entry and "LatestBlock" in this
\* order and each at most once; the height Put only after the hash Put
\* succeeded, the cache update and the "LatestBlock" Put only after the
\* height Put succeeded; a Put that failed is not tried again.
C17_NoRetriesFixedOrder ==
    /\ [](AfterSuccessOnly /\ InOrder(last.puts))
    /\ [][OnePutAStep]_vars

\* C17's case: a call whose Put of the height entry failed has returned,
\* having issued two Puts and no more.
C17_Witness ==
    /\ last.result = "err"
    /\ last.puts = <<(<<"hash", TRUE>>), (<<"height", FALSE>>)>>
    /\ Get(store, encodeBlockHeight(last.block.Header.Height)).err

\* C17's case: a call has returned after its third Put, which failed.
C17_WitnessThree ==
    /\ last.result = "ok"
    /\ last.puts =
          <<(<<"hash", TRUE>>), (<<"height", TRUE>>), (<<"latest", FALSE>>)>>

\* C18 (cached head durable by hash): in every state, whatever the
\* interleaving of WriteBlock calls and whichever Puts failed, a block B in
\* the cache, stored by WriteBlock or by recovery, has a record under
\* hash(B) that decodes to B: GetBlockByHash of the current block's hash
\* succeeds and returns it.
C18_CachedHeadDurable ==
    (facade = "ok" /\ GetCurrentBlock(currentBlock) # Nil) =>
        LET found == GetBlockByHash(store,
                                    BlockHash(GetCurrentBlock(currentBlock)))
        IN  ~found.err /\ found.block = GetCurrentBlock(currentBlock)

\* C18's case: the cache holds a block stored by WriteBlock while
\* "LatestBlock" names another block and a Put has failed.
C18_Witness ==
    /\ facade = "ok"
    /\ ~fresh
    /\ ~clean
    /\ GetCurrentBlock(currentBlock) # Nil
    /\ Recovered(store) # Nil
    /\ Recovered(store) # GetCurrentBlock(currentBlock)

\* C18's case: the cache holds a block stored by recovery.
C18_WitnessRecovered ==
    /\ facade = "ok"
    /\ fresh
    /\ GetCurrentBlock(currentBlock) # Nil

\* At every point of a WriteBlock(B) that no other call overlaps, from its
\* call to its return, the head recovery finds in the store is the head it
\* would have found when the call started, or B.
HeadOldOrNew ==
    /\ \A c \in Callers :
        (pc[c] # "idle" /\ alone[c]) =>
            Recovered(store) \in {Recovered(pre.store), blk[c]}
    /\ (last.alone /\ last.result # "none") =>
            Recovered(store) \in {Recovered(pre.store), last.block}

\* The end of the process leaves the contents of the leveldb engine as they
\* are, and the construction of a BlockStore over them succeeds, whatever
\* they are, with the head recovery finds in them.
RestartRecovers ==
    config = PLUGIN_LEVELDB =>
        /\ (facade = "ok" /\ facade' = "none") => store' = store
        /\ Construction =>
              /\ facade' = "ok"
              /\ store' = store
              /\ GetCurrentBlock(currentBlock') = Recovered(store)

\* C19 (crash atomicity of the head): when the process stops at any point
\* of a WriteBlock(B), before, between or after its Puts, and a BlockStore
\* is constructed over the same durable store, the construction succeeds
\* and its head is the head recovery would have produced before the call
\* started, or B, and no other block.
C19_CrashAtomicity == []HeadOldOrNew /\ [][RestartRecovers]_vars

\* C19's case: the process stopped inside the WriteBlock called last, after
\* a Put of it had landed, on a store that had a head before the call, and a
\* BlockStore was constructed over the store.
C19_Witness ==
    /\ config = PLUGIN_LEVELDB
    /\ facade = "ok" /\ fresh
    /\ writes > 0 /\ last = NoCall
    /\ store # pre.store
    /\ Recovered(pre.store) # Nil
    /\ GetCurrentBlock(currentBlock) = Recovered(pre.store)

\* C19's case: a call running alone stands between its Put of the height
\* entry and its Put of "LatestBlock", the store's head being another block.
C19_WitnessMidCall ==
    \E c \in Callers :
        /\ pc[c] = "putLatest" /\ alone[c]
        /\ Recovered(pre.store) \notin {Nil, blk[c]}

\* The three keys WriteBlock(block) may write: the 32 bytes of the block's
\* hash, the 8 big-endian bytes of its height, and "LatestBlock".
FrameKeys(block) ==
    {HashToBytes(BlockHash(block)),
     <<0, 0, 0, 0, 0, 0, 0, block.Header.Height>>,
     latestBlockKey}

\* Stores s and t agree, in presence and in value, on every key that is not
\* one of the three of block, and on every block record of another hash.
SameOutside(s, t, block) ==
    /\ \A k \in (DOMAIN s \cup DOMAIN t) \ FrameKeys(block) :
          Get(s, k) = Get(t, k)
    /\ \A b \in Blocks :
          BlockHash(b) # BlockHash(block) =>
              GetBlockByHash(s, BlockHash(b)) = GetBlockByHash(t, BlockHash(b))

\* A WriteBlock(B) that no other call overlaps has, at every point up to its
\* return, changed nothing outside the three keys of B.
FrameOfCall ==
    /\ \A b \in Blocks :
        /\ Len(HashToBytes(BlockHash(b))) = 32
        /\ encodeBlockHeight(b.Header.Height) \in FrameKeys(b)
    /\ \A c \in Callers :
        (pc[c] # "idle" /\ alone[c]) => SameOutside(pre.store, store, blk[c])
    /\ (facade = "ok" /\ last.alone /\ last.result # "none") =>
          SameOutside(pre.store, store, last.block)

\* Each step of a call, overlapped by other calls or not, changes at most
\* keys among the three of its block; the call itself, before its first Put,
\* changes none.
FrameOfStep ==
    (facade = "ok" /\ facade' = "ok") =>
        \A c \in Callers :
            /\ (pc[c] # "idle" /\ pc'[c] # pc[c]) =>
                  SameOutside(store, store', blk[c])
            /\ (pc[c] = "idle" /\ writes' # writes) => store' = store

\* C20 (WriteBlock frame): a WriteBlock(B), whatever its outcome, changes at
\* most three keys of the store, the 32-byte hash(B), the 8-byte big-endian
\* key of B's height and "LatestBlock", and leaves every other key as it
\* was, present or absent; records of other hashes and entries of other
\* heights are untouched, and the block written earlier at B's height is
\* still found by its hash.
C20_WriteBlockFrame == []FrameOfCall /\ [][FrameOfStep]_vars

\* C20's case: a WriteBlock(B) has returned nil on a store that held another
\* block at B's height; all three keys were written and the earlier block
\* is still found by its hash.
C20_Witness ==
    /\ facade = "ok" /\ last.alone /\ last.result = "ok"
    /\ \A k \in FrameKeys(last.block) : Get(store, k) # Get(pre.store, k)
    /\ \E b \in Blocks :
        /\ b # last.block
        /\ b.Header.Height = last.block.Header.Height
        /\ GetBlockByHash(pre.store, BlockHash(b)).block = b
        /\ GetBlockByHash(store, BlockHash(b)).block = b
====
